---- MODULE Spec2Model ----
(***************************************************************************)
(* Lint plugin host of cli/tools/lint/plugins.rs: a PluginRunner thread    *)
(* owning the JS runtime and the LintPluginContainer, and a                *)
(* PluginRunnerProxy talking to it over two bounded tokio mpsc channels.   *)
(***************************************************************************)
EXTENDS Integers, Sequences, FiniteSets, TLC

(* ------------------------------ bounds --------------------------------- *)

\* calls made on the proxy, all callers together
MaxCalls == 3

\* channel(10), both directions
ChannelCap == 10

Callers == {"main", "aux"}

Asts == {"ast1", "ast2"}

(* --------------------------- plugin modules ---------------------------- *)

NoDef == [name |-> "", rules |-> <<>>]

\* What a plugin module does when load_plugins handles it:
\*   kind "ok"       loads, evaluates, default export deserializes
\*   kind "loadErr"  load_side_es_module fails
\*   kind "evalErr"  the evaluation future resolves to an error
\*   kind "deserErr" serde_v8::from_v8 of the default export fails
\*   kind "panic"    the default export is not an object (try_into().unwrap())
\*   kind "loopErr"  loads and starts evaluating, then run_event_loop fails
\* evalReports: op_lint_report calls made by the module's top-level code.
Module(s) ==
  CASE s = "nc" ->
         [kind |-> "ok", evalReports |-> <<>>,
          def |-> [name |-> "no-console",
                   rules |-> << [name |-> "no-console", create |-> "fn_no_console"] >>]]
    [] s = "p3" ->
         [kind |-> "ok", evalReports |-> <<>>,
          def |-> [name |-> "p3",
                   rules |-> << [name |-> "r1", create |-> "fn_r1"],
                                [name |-> "r2", create |-> "fn_missing"],
                                [name |-> "r3", create |-> "fn_cond"] >>]]
    [] s = "dup" ->
         [kind |-> "ok", evalReports |-> <<>>,
          def |-> [name |-> "no-console",
                   rules |-> << [name |-> "other", create |-> "fn_silent"] >>]]
    [] s = "noisy" ->
         [kind |-> "ok",
          evalReports |-> << [id |-> "noisy", specifier |-> "load.js", message |-> "at load"] >>,
          def |-> [name |-> "noisy",
                   rules |-> << [name |-> "cond", create |-> "fn_cond"] >>]]
    [] s = "e_load"  -> [kind |-> "loadErr",  evalReports |-> <<>>, def |-> NoDef]
    [] s = "e_eval"  -> [kind |-> "evalErr",  evalReports |-> <<>>, def |-> NoDef]
    [] s = "e_deser" -> [kind |-> "deserErr", evalReports |-> <<>>, def |-> NoDef]
    [] s = "e_loop"  -> [kind |-> "loopErr",  evalReports |-> <<>>, def |-> NoDef]
    [] OTHER         -> [kind |-> "panic",    evalReports |-> <<>>, def |-> NoDef]

\* the specifier lists callers pass to load_plugins
LoadLists ==
  { << "nc" >>, << "p3" >>, << "nc", "dup" >>, << "noisy", "e_deser" >>,
    << "noisy", "e_load" >>, << "e_eval", "nc" >>, << "nc", "e_loop" >>, << "e_panic" >> }

\* What a rule's script-side implementation does when it is invoked:
\* the report calls it makes, then how it ends ("ok", "throw", or
\* "resolve" = it resolves a rule that does not exist).
Callable(f, file, ast) ==
  CASE f = "fn_no_console" ->
         [reports |-> << [id |-> "no-console", specifier |-> file,
                          message |-> "Unexpected console statement"] >>,
          end |-> "ok"]
    [] f = "fn_r1" ->
         [reports |-> << [id |-> "r1", specifier |-> file, message |-> "m1"] >>,
          end |-> "ok"]
    [] f = "fn_cond" ->
         [reports |-> IF ast = "ast1"
                        THEN << [id |-> "cond", specifier |-> file, message |-> "m3"] >>
                        ELSE <<>>,
          end |-> "ok"]
    [] f = "fn_missing" -> [reports |-> <<>>, end |-> "resolve"]
    [] OTHER -> [reports |-> <<>>, end |-> "ok"]

(* ----------------------- LintPluginContainer --------------------------- *)

PluginNames(ps) == { ps[i].name : i \in 1..Len(ps) }

PluginIndex(ps, name) == CHOOSE i \in 1..Len(ps) : ps[i].name = name

RuleNames(rules) == { rules[i].name : i \in 1..Len(rules) }

\* register as IndexMap::insert alone would behave: an existing entry is replaced
Register_overwrite(ps, name, desc) ==
  IF name \in PluginNames(ps)
    THEN [plugins |-> [ps EXCEPT ![PluginIndex(ps, name)] = [name |-> name, rules |-> desc]],
          ok |-> TRUE, err |-> ""]
    ELSE [plugins |-> Append(ps, [name |-> name, rules |-> desc]),
          ok |-> TRUE, err |-> ""]

\* LintPluginContainer::register
Register(ps, name, desc) ==
  IF name \in PluginNames(ps)
    THEN [plugins |-> ps, ok |-> FALSE, err |-> "AlreadyExists"]
    ELSE [plugins |-> Append(ps, [name |-> name, rules |-> desc]),
          ok |-> TRUE, err |-> ""]

\* report with the rule id and the message stored in each other's field
Report_swapped(diags, id, specifier, message) ==
  Append(diags, [specifier |-> "file:///" \o specifier,
                 range |-> "None",
                 message |-> id,
                 code |-> message,
                 hint |-> "None",
                 fixes |-> <<>>,
                 custom_docs_url |-> "None",
                 info |-> <<>>])

\* report putting the new Diagnostic in front of the buffer
Report_front(diags, id, specifier, message) ==
  << [specifier |-> "file:///" \o specifier,
      range |-> "None",
      message |-> message,
      code |-> id,
      hint |-> "None",
      fixes |-> <<>>,
      custom_docs_url |-> "None",
      info |-> <<>>] >> \o diags

\* LintPluginContainer::report
Report(diags, id, specifier, message) ==
  Append(diags, [specifier |-> "file:///" \o specifier,
                 range |-> "None",
                 message |-> message,
                 code |-> id,
                 hint |-> "None",
                 fixes |-> <<>>,
                 custom_docs_url |-> "None",
                 info |-> <<>>])

RECURSIVE ReportAll(_, _)
\* op_lint_report, once per report call of a script
ReportAll(diags, reps) ==
  IF reps = <<>> THEN diags
  ELSE ReportAll(Report(diags, Head(reps).id, Head(reps).specifier, Head(reps).message),
                 Tail(reps))

\* op_lint_get_rule blaming the plugin when it is the rule that is missing
OpLintGetRule_blamePlugin(ps, plugin_name, rule_name) ==
  IF plugin_name \notin PluginNames(ps)
    THEN [ok |-> FALSE, err |-> "NotFound", missing |-> plugin_name, fn |-> ""]
    ELSE LET rules == ps[PluginIndex(ps, plugin_name)].rules IN
         IF rule_name \notin RuleNames(rules)
           THEN [ok |-> FALSE, err |-> "NotFound", missing |-> plugin_name, fn |-> ""]
           ELSE [ok |-> TRUE, err |-> "", missing |-> "",
                 fn |-> (CHOOSE r \in { rules[i] : i \in 1..Len(rules) } :
                           r.name = rule_name).create]

\* op_lint_get_rule
OpLintGetRule(ps, plugin_name, rule_name) ==
  IF plugin_name \notin PluginNames(ps)
    THEN [ok |-> FALSE, err |-> "NotFound", missing |-> plugin_name, fn |-> ""]
    ELSE LET rules == ps[PluginIndex(ps, plugin_name)].rules IN
         IF rule_name \notin RuleNames(rules)
           THEN [ok |-> FALSE, err |-> "NotFound", missing |-> rule_name, fn |-> ""]
           ELSE [ok |-> TRUE, err |-> "", missing |-> "",
                 fn |-> (CHOOSE r \in { rules[i] : i \in 1..Len(rules) } :
                           r.name = rule_name).create]

\* take_diagnostics returning a copy and leaving the buffer as it was
TakeDiagnostics_keep(diags) == [taken |-> diags, left |-> diags]

\* PluginRunner::take_diagnostics (std::mem::take)
TakeDiagnostics(diags) == [taken |-> diags, left |-> <<>>]

RECURSIVE Flatten(_)
\* PluginRunner::get_rules_to_run, as the sequence of (plugin, rule) pairs
\* the nested loops of run_rules walk
Flatten(ps) ==
  IF ps = <<>> THEN <<>>
  ELSE [i \in 1..Len(Head(ps).rules) |->
          [plugin |-> Head(ps).name, rule |-> Head(ps).rules[i].name]]
       \o Flatten(Tail(ps))

\* the bootstrap entry point runPluginRule(fileName, pluginName, ruleName, ast)
RunPluginRule(ps, diags, file, plugin_name, rule_name, ast) ==
  LET got == OpLintGetRule(ps, plugin_name, rule_name) IN
  IF ~got.ok THEN [diagnostics |-> diags, ok |-> FALSE, err |-> got.err]
  ELSE LET b == Callable(got.fn, file, ast)
           d == ReportAll(diags, b.reports)
       IN CASE b.end = "ok" -> [diagnostics |-> d, ok |-> TRUE, err |-> ""]
            [] b.end = "resolve" ->
                 [diagnostics |-> d, ok |-> FALSE,
                  err |-> OpLintGetRule(ps, plugin_name, "nonexistent").err]
            [] OTHER -> [diagnostics |-> d, ok |-> FALSE, err |-> "Thrown"]

RECURSIVE LoadPhase(_, _)
\* first loop of PluginRunner::load_plugins: load each module and start its
\* evaluation; the first load failure returns
LoadPhase(specs, diags) ==
  IF specs = <<>> THEN [diagnostics |-> diags, ok |-> TRUE, err |-> ""]
  ELSE IF Module(Head(specs)).kind = "loadErr"
         THEN [diagnostics |-> diags, ok |-> FALSE, err |-> "LoadError"]
         ELSE LoadPhase(Tail(specs), ReportAll(diags, Module(Head(specs)).evalReports))

\* run_event_loop after the first loop of PluginRunner::load_plugins
EventLoop(specs) ==
  IF \E i \in 1..Len(specs) : Module(specs[i]).kind = "loopErr"
    THEN [ok |-> FALSE, err |-> "EventLoopError"]
    ELSE [ok |-> TRUE, err |-> ""]

(* ------------------------------ state ---------------------------------- *)

VARIABLES
  rpc,          \* where the Runner thread is
  exit,         \* what the thread's closure returned: "none", "Ok", "Err", "Panic"
  plugins,      \* LintPluginContainer.plugins (IndexMap, insertion order)
  diagnostics,  \* LintPluginContainer.diagnostics
  cur,          \* the request the run loop is handling
  plan,         \* rules_to_run of the Run request being handled
  idx,          \* position of the loop of load_plugins / run_rules
  resp,         \* the response the run loop is about to send
  reqQ,         \* request channel (Proxy -> Runner)
  resQ,         \* response channel (Runner -> Proxy)
  proxy,        \* "live" or "dropped" (the PluginRunnerProxy value)
  handle,       \* outcome of create_runner_and_load_plugins: "none", "ok", "err"
  cpc,          \* where each caller is in its Proxy call
  call,         \* the request of each caller's current call
  result,       \* what each caller's call returned
  ncalls,       \* calls started so far
  lockQ,        \* tokio Mutex around the response receiver: holder first, then waiters (FIFO)
  regFailed,    \* history: a register of the load being handled returned Err
  regLog,       \* history: the register calls made so far, with their outcome
  invoked,      \* history: (plugin, rule) pairs invoked for the Run being handled, with outcome
  bufAtRecv,    \* history: the diagnostic buffer when the request being handled was received
  nrep,         \* history: report calls made while handling the current request
  sent,         \* history: the last response the Runner sent
  regAtRecv,    \* history: the registry when the request being handled was received
  recvLog,      \* history: id and kind of the requests the run loop received, in order
  sentLog,      \* history: id and kind of the responses the run loop sent, in order
  loadsSent,    \* history: the specifier lists sent in LoadPlugins requests
  answer,       \* history: the Runner's response to each caller's current request
  got,          \* history: the response each caller's current call received
  exitedAtStart \* history: the Runner thread had exited when the caller's call began

vars == << rpc, exit, plugins, diagnostics, cur, plan, idx, resp, reqQ, resQ,
           proxy, handle, cpc, call, result, ncalls, lockQ,
           regFailed, regLog, invoked, bufAtRecv, nrep, sent,
           regAtRecv, recvLog, sentLog, loadsSent,
           answer, got, exitedAtStart >>

runnerVars == << rpc, exit, plugins, diagnostics, cur, plan, idx, resp >>

callerVars == << cpc, call, result, ncalls, lockQ >>

runnerHist == << regFailed, regLog, invoked, bufAtRecv, nrep, sent,
                 regAtRecv, recvLog, sentLog >>

NoReq == [kind |-> "none", specs |-> <<>>, ast |-> "", from |-> "", id |-> 0]

NoResp == [kind |-> "none", ok |-> FALSE, err |-> "", diags |-> <<>>, for |-> "", id |-> 0]

NoResult == [ok |-> FALSE, err |-> "none", diags |-> <<>>]

Init ==
  /\ rpc = "starting"
  /\ exit = "none"
  /\ plugins = <<>>
  /\ diagnostics = <<>>
  /\ cur = NoReq
  /\ plan = <<>>
  /\ idx = 0
  /\ resp = NoResp
  /\ reqQ = <<>>
  /\ resQ = <<>>
  /\ proxy = "live"
  /\ handle = "none"
  /\ cpc = [c \in Callers |-> "idle"]
  /\ call = [c \in Callers |-> NoReq]
  /\ result = [c \in Callers |-> NoResult]
  /\ ncalls = 0
  /\ lockQ = <<>>
  /\ regFailed = FALSE
  /\ regLog = <<>>
  /\ invoked = <<>>
  /\ bufAtRecv = <<>>
  /\ nrep = 0
  /\ sent = NoResp
  /\ regAtRecv = <<>>
  /\ recvLog = <<>>
  /\ sentLog = <<>>
  /\ loadsSent = <<>>
  /\ answer = [c \in Callers |-> NoResp]
  /\ got = [c \in Callers |-> NoResp]
  /\ exitedAtStart = [c \in Callers |-> FALSE]

(* --------------------------- Runner thread ----------------------------- *)

\* a thread closure that records the bootstrap error and parks without
\* returning, so that neither channel end is dropped
RunnerBootstrap_park ==
  /\ rpc = "starting"
  /\ \E booted \in BOOLEAN :
       IF booted
         THEN /\ rpc' = "waiting"
              /\ UNCHANGED << exit, reqQ >>
         ELSE /\ rpc' = "parked"
              /\ exit' = "Err"
              /\ reqQ' = reqQ
  /\ UNCHANGED << plugins, diagnostics, cur, plan, idx, resp, resQ, proxy, handle,
                  callerVars, runnerHist, loadsSent, answer, got, exitedAtStart >>

\* the thread closure of PluginRunner::create up to run_loop: the bootstrap
\* script evaluates, or obj_result? returns the error and drops both channel ends
RunnerBootstrap ==
  /\ rpc = "starting"
  /\ \E booted \in BOOLEAN :
       IF booted
         THEN /\ rpc' = "waiting"
              /\ UNCHANGED << exit, reqQ >>
         ELSE /\ rpc' = "exited"
              /\ exit' = "Err"
              /\ reqQ' = <<>>
  /\ UNCHANGED << plugins, diagnostics, cur, plan, idx, resp, resQ, proxy, handle,
                  callerVars, runnerHist, loadsSent, answer, got, exitedAtStart >>

\* run_loop: self.rx.recv() yields a request; a Run request snapshots the plan
RunnerRecv ==
  /\ rpc = "waiting"
  /\ reqQ # <<>>
  /\ cur' = Head(reqQ)
  /\ reqQ' = Tail(reqQ)
  /\ IF Head(reqQ).kind = "LoadPlugins"
       THEN /\ rpc' = "load"
            /\ plan' = <<>>
       ELSE /\ rpc' = "run"
            /\ plan' = Flatten(plugins)
  /\ idx' = 1
  /\ regFailed' = FALSE
  /\ invoked' = <<>>
  /\ bufAtRecv' = diagnostics
  /\ regAtRecv' = plugins
  /\ recvLog' = Append(recvLog, [id |-> Head(reqQ).id, kind |-> Head(reqQ).kind])
  /\ nrep' = 0
  /\ UNCHANGED << exit, plugins, diagnostics, resp, resQ, proxy, handle,
                  callerVars, regLog, sent, sentLog, loadsSent, answer, got, exitedAtStart >>

\* a run loop that ends as soon as no request is queued
RunnerClose_idle ==
  /\ rpc = "waiting"
  /\ reqQ = <<>>
  /\ rpc' = "exited"
  /\ exit' = "Ok"
  /\ UNCHANGED << plugins, diagnostics, cur, plan, idx, resp, reqQ, resQ, proxy, handle,
                  callerVars, runnerHist, loadsSent, answer, got, exitedAtStart >>

\* run_loop: recv() yields None once the Proxy's sender is dropped and the
\* queue is empty; the thread returns Ok(())
RunnerClose ==
  /\ rpc = "waiting"
  /\ reqQ = <<>>
  /\ proxy = "dropped"
  /\ rpc' = "exited"
  /\ exit' = "Ok"
  /\ UNCHANGED << plugins, diagnostics, cur, plan, idx, resp, reqQ, resQ, proxy, handle,
                  callerVars, runnerHist, loadsSent, answer, got, exitedAtStart >>

RECURSIVE RegisterUntilFailure(_, _)
\* registering the modules of a specifier list one after the other, up to the
\* first one that does not load
RegisterUntilFailure(ps, specs) ==
  IF specs = <<>> \/ Module(Head(specs)).kind # "ok" THEN ps
  ELSE RegisterUntilFailure(Register(ps, Module(Head(specs)).def.name,
                                     Module(Head(specs)).def.rules).plugins,
                            Tail(specs))

\* load_plugins in one pass: each module is loaded, evaluated and registered
\* before the next specifier is looked at
RunnerLoadModules_eager ==
  /\ rpc = "load"
  /\ LET r == LoadPhase(cur.specs, diagnostics)
         l == EventLoop(cur.specs)
     IN
       /\ diagnostics' = r.diagnostics
       /\ nrep' = nrep + (Len(r.diagnostics) - Len(diagnostics))
       /\ IF r.ok /\ l.ok
            THEN /\ rpc' = "register"
                 /\ resp' = resp
                 /\ plugins' = plugins
            ELSE /\ rpc' = "respond"
                 /\ resp' = [kind |-> "LoadPlugin", ok |-> FALSE,
                             err |-> IF r.ok THEN l.err ELSE r.err,
                             diags |-> <<>>, for |-> cur.from, id |-> cur.id]
                 /\ plugins' = RegisterUntilFailure(plugins, cur.specs)
  /\ UNCHANGED << exit, cur, plan, idx, reqQ, resQ, proxy, handle,
                  callerVars, regFailed, regLog, invoked, bufAtRecv, regAtRecv, recvLog, sent, sentLog,
                  loadsSent, answer, got, exitedAtStart >>

\* load_plugins starting each call with an emptied diagnostic buffer
RunnerLoadModules_drain ==
  /\ rpc = "load"
  /\ LET r == LoadPhase(cur.specs, <<>>)
         l == EventLoop(cur.specs)
     IN
       /\ diagnostics' = r.diagnostics
       /\ nrep' = nrep + Len(r.diagnostics)
       /\ IF r.ok /\ l.ok
            THEN /\ rpc' = "register"
                 /\ resp' = resp
            ELSE /\ rpc' = "respond"
                 /\ resp' = [kind |-> "LoadPlugin", ok |-> FALSE,
                             err |-> IF r.ok THEN l.err ELSE r.err,
                             diags |-> <<>>, for |-> cur.from, id |-> cur.id]
  /\ UNCHANGED << exit, plugins, cur, plan, idx, reqQ, resQ, proxy, handle,
                  callerVars, regFailed, regLog, invoked, bufAtRecv, regAtRecv, recvLog, sent, sentLog,
                  loadsSent, answer, got, exitedAtStart >>

\* load_plugins, first loop and run_event_loop
RunnerLoadModules ==
  /\ rpc = "load"
  /\ LET r == LoadPhase(cur.specs, diagnostics)
         l == EventLoop(cur.specs)
     IN
       /\ diagnostics' = r.diagnostics
       /\ nrep' = nrep + (Len(r.diagnostics) - Len(diagnostics))
       /\ IF r.ok /\ l.ok
            THEN /\ rpc' = "register"
                 /\ resp' = resp
            ELSE /\ rpc' = "respond"
                 /\ resp' = [kind |-> "LoadPlugin", ok |-> FALSE,
                             err |-> IF r.ok THEN l.err ELSE r.err,
                             diags |-> <<>>, for |-> cur.from, id |-> cur.id]
  /\ UNCHANGED << exit, plugins, cur, plan, idx, reqQ, resQ, proxy, handle,
                  callerVars, regFailed, regLog, invoked, bufAtRecv, regAtRecv, recvLog, sent, sentLog,
                  loadsSent, answer, got, exitedAtStart >>

\* load_plugins logging a module whose evaluation or deserialization failed and
\* going on with the next one
RunnerRegister_skip ==
  /\ rpc = "register"
  /\ IF idx > Len(cur.specs)
       THEN /\ rpc' = "respond"
            /\ resp' = [kind |-> "LoadPlugin", ok |-> TRUE, err |-> "",
                        diags |-> <<>>, for |-> cur.from, id |-> cur.id]
            /\ UNCHANGED << exit, plugins, idx, reqQ, regFailed, regLog >>
       ELSE LET m == Module(cur.specs[idx]) IN
            CASE m.kind = "evalErr" ->
                   /\ idx' = idx + 1
                   /\ UNCHANGED << rpc, resp, exit, plugins, reqQ, regFailed, regLog >>
              [] m.kind = "deserErr" ->
                   /\ idx' = idx + 1
                   /\ UNCHANGED << rpc, resp, exit, plugins, reqQ, regFailed, regLog >>
              [] m.kind = "panic" ->
                   /\ rpc' = "exited"
                   /\ exit' = "Panic"
                   /\ reqQ' = <<>>
                   /\ UNCHANGED << resp, plugins, idx, regFailed, regLog >>
              [] OTHER ->
                   LET reg == Register(plugins, m.def.name, m.def.rules)
                   IN /\ plugins' = reg.plugins
                      /\ idx' = idx + 1
                      /\ regFailed' = (regFailed \/ ~reg.ok)
                      /\ regLog' = Append(regLog, [name |-> m.def.name, rules |-> m.def.rules,
                                                   ok |-> reg.ok, err |-> reg.err])
                      /\ UNCHANGED << rpc, exit, resp, reqQ >>
  /\ UNCHANGED << diagnostics, cur, plan, resQ, proxy, handle, callerVars,
                  invoked, bufAtRecv, regAtRecv, recvLog, nrep, sent, sentLog, loadsSent, answer, got, exitedAtStart >>

\* load_plugins, one iteration of the second loop (fut.await?, default
\* export, serde_v8::from_v8, container.register), or the Ok(()) after it
RunnerRegister ==
  /\ rpc = "register"
  /\ IF idx > Len(cur.specs)
       THEN /\ rpc' = "respond"
            /\ resp' = [kind |-> "LoadPlugin", ok |-> TRUE, err |-> "",
                        diags |-> <<>>, for |-> cur.from, id |-> cur.id]
            /\ UNCHANGED << exit, plugins, idx, reqQ, regFailed, regLog >>
       ELSE LET m == Module(cur.specs[idx]) IN
            CASE m.kind = "evalErr" ->
                   /\ rpc' = "respond"
                   /\ resp' = [kind |-> "LoadPlugin", ok |-> FALSE, err |-> "EvalError",
                               diags |-> <<>>, for |-> cur.from, id |-> cur.id]
                   /\ UNCHANGED << exit, plugins, idx, reqQ, regFailed, regLog >>
              [] m.kind = "deserErr" ->
                   /\ rpc' = "respond"
                   /\ resp' = [kind |-> "LoadPlugin", ok |-> FALSE,
                               err |-> "Failed to deserialize plugin",
                               diags |-> <<>>, for |-> cur.from, id |-> cur.id]
                   /\ UNCHANGED << exit, plugins, idx, reqQ, regFailed, regLog >>
              [] m.kind = "panic" ->
                   /\ rpc' = "exited"
                   /\ exit' = "Panic"
                   /\ reqQ' = <<>>
                   /\ UNCHANGED << resp, plugins, idx, regFailed, regLog >>
              [] OTHER ->
                   LET reg == Register(plugins, m.def.name, m.def.rules)
                   IN /\ plugins' = reg.plugins
                      /\ idx' = idx + 1
                      /\ regFailed' = (regFailed \/ ~reg.ok)
                      /\ regLog' = Append(regLog, [name |-> m.def.name, rules |-> m.def.rules,
                                                   ok |-> reg.ok, err |-> reg.err])
                      /\ UNCHANGED << rpc, exit, resp, reqQ >>
  /\ UNCHANGED << diagnostics, cur, plan, resQ, proxy, handle, callerVars,
                  invoked, bufAtRecv, regAtRecv, recvLog, nrep, sent, sentLog, loadsSent, answer, got, exitedAtStart >>

\* run_rules leaving its loops at the first failed invocation
RunnerRunRule_abort ==
  /\ rpc = "run"
  /\ idx <= Len(plan)
  /\ LET r == RunPluginRule(plugins, diagnostics, "foo.js",
                            plan[idx].plugin, plan[idx].rule, cur.ast) IN
       /\ diagnostics' = r.diagnostics
       /\ nrep' = nrep + (Len(r.diagnostics) - Len(diagnostics))
       /\ invoked' = Append(invoked, [plugin |-> plan[idx].plugin,
                                      rule |-> plan[idx].rule, ok |-> r.ok])
       /\ idx' = IF r.ok THEN idx + 1 ELSE Len(plan) + 1
  /\ UNCHANGED << rpc, exit, plugins, cur, plan, resp, reqQ, resQ, proxy, handle,
                  callerVars, regFailed, regLog, bufAtRecv, regAtRecv, recvLog, sent, sentLog,
                  loadsSent, answer, got, exitedAtStart >>

\* run_rules returning the error of a failed invocation (.await?), which
\* run_loop sends as Run(Err)
RunnerRunRule_propagate ==
  /\ rpc = "run"
  /\ idx <= Len(plan)
  /\ LET r == RunPluginRule(plugins, diagnostics, "foo.js",
                            plan[idx].plugin, plan[idx].rule, cur.ast) IN
       /\ diagnostics' = r.diagnostics
       /\ nrep' = nrep + (Len(r.diagnostics) - Len(diagnostics))
       /\ invoked' = Append(invoked, [plugin |-> plan[idx].plugin,
                                      rule |-> plan[idx].rule, ok |-> r.ok])
       /\ rpc' = IF r.ok THEN rpc ELSE "respond"
       /\ resp' = IF r.ok THEN resp
                  ELSE [kind |-> "Run", ok |-> FALSE, err |-> r.err,
                        diags |-> <<>>, for |-> cur.from, id |-> cur.id]
  /\ idx' = idx + 1
  /\ UNCHANGED << exit, plugins, cur, plan, reqQ, resQ, proxy, handle,
                  callerVars, regFailed, regLog, bufAtRecv, regAtRecv, recvLog, sent, sentLog,
                  loadsSent, answer, got, exitedAtStart >>

\* run_rules, one iteration: call runPluginRule and await it; an Err is only logged
RunnerRunRule ==
  /\ rpc = "run"
  /\ idx <= Len(plan)
  /\ LET r == RunPluginRule(plugins, diagnostics, "foo.js",
                            plan[idx].plugin, plan[idx].rule, cur.ast) IN
       /\ diagnostics' = r.diagnostics
       /\ nrep' = nrep + (Len(r.diagnostics) - Len(diagnostics))
       /\ invoked' = Append(invoked, [plugin |-> plan[idx].plugin,
                                      rule |-> plan[idx].rule, ok |-> r.ok])
  /\ idx' = idx + 1
  /\ UNCHANGED << rpc, exit, plugins, cur, plan, resp, reqQ, resQ, proxy, handle,
                  callerVars, regFailed, regLog, bufAtRecv, regAtRecv, recvLog, sent, sentLog,
                  loadsSent, answer, got, exitedAtStart >>

\* run_loop after run_rules returned Ok(()): Ok(self.take_diagnostics())
RunnerTake ==
  /\ rpc = "run"
  /\ idx > Len(plan)
  /\ LET t == TakeDiagnostics(diagnostics) IN
       /\ diagnostics' = t.left
       /\ resp' = [kind |-> "Run", ok |-> TRUE, err |-> "",
                   diags |-> t.taken, for |-> cur.from, id |-> cur.id]
  /\ rpc' = "respond"
  /\ UNCHANGED << exit, plugins, cur, plan, idx, reqQ, resQ, proxy, handle,
                  callerVars, runnerHist, loadsSent, answer, got, exitedAtStart >>

\* a run loop that sends Ok results only and just logs an Err result
RunnerRespond_okOnly ==
  /\ rpc = "respond"
  /\ proxy = "dropped" \/ Len(resQ) < ChannelCap
  /\ resQ' = IF proxy = "dropped" \/ ~resp.ok THEN resQ ELSE Append(resQ, resp)
  /\ sent' = resp
  /\ sentLog' = IF proxy = "dropped" \/ ~resp.ok THEN sentLog
                ELSE Append(sentLog, [id |-> resp.id, kind |-> resp.kind])
  /\ answer' = IF call[resp.for].id = resp.id
                 THEN [answer EXCEPT ![resp.for] = resp] ELSE answer
  /\ rpc' = "waiting"
  /\ cur' = NoReq
  /\ resp' = NoResp
  /\ plan' = <<>>
  /\ idx' = 0
  /\ UNCHANGED << exit, plugins, diagnostics, reqQ, proxy, handle, callerVars,
                  regFailed, regLog, invoked, bufAtRecv, regAtRecv, recvLog, nrep, loadsSent, got, exitedAtStart >>

\* run_loop: let _ = self.tx.send(response).await
RunnerRespond ==
  /\ rpc = "respond"
  /\ proxy = "dropped" \/ Len(resQ) < ChannelCap
  /\ resQ' = IF proxy = "dropped" THEN resQ ELSE Append(resQ, resp)
  /\ sent' = resp
  /\ sentLog' = IF proxy = "dropped" THEN sentLog
                ELSE Append(sentLog, [id |-> resp.id, kind |-> resp.kind])
  /\ answer' = IF call[resp.for].id = resp.id
                 THEN [answer EXCEPT ![resp.for] = resp] ELSE answer
  /\ rpc' = "waiting"
  /\ cur' = NoReq
  /\ resp' = NoResp
  /\ plan' = <<>>
  /\ idx' = 0
  /\ UNCHANGED << exit, plugins, diagnostics, reqQ, proxy, handle, callerVars,
                  regFailed, regLog, invoked, bufAtRecv, regAtRecv, recvLog, nrep, loadsSent, got, exitedAtStart >>

(* ------------------------------ callers -------------------------------- *)

LoadRequests(c) ==
  { [kind |-> "LoadPlugins", specs |-> sp, ast |-> "", from |-> c, id |-> ncalls + 1] :
      sp \in LoadLists }

RunRequests(c) ==
  { [kind |-> "Run", specs |-> <<>>, ast |-> a, from |-> c, id |-> ncalls + 1] : a \in Asts }

\* a call begins with  self.tx.send(request).await?  on the request the caller
\* passes: Err(SendError) once the Runner dropped its receiver.
\* create_runner_and_load_plugins makes the first call, a load_plugins, and the
\* Proxy exists for other calls only once that call returned Ok
CallerSend(c) ==
  /\ cpc[c] = "idle"
  /\ ncalls < MaxCalls
  /\ proxy = "live"
  /\ \/ c = "main" /\ handle = "none"
     \/ handle = "ok"
  /\ ncalls' = ncalls + 1
  /\ exitedAtStart' = [exitedAtStart EXCEPT ![c] = (rpc = "exited")]
  /\ \E r \in (IF handle = "none" THEN LoadRequests(c)
               ELSE LoadRequests(c) \cup RunRequests(c)) :
       /\ call' = [call EXCEPT ![c] = r]
       /\ IF rpc = "exited"
            THEN /\ result' = [result EXCEPT ![c] =
                                 [ok |-> FALSE, err |-> "SendError", diags |-> <<>>]]
                 /\ cpc' = [cpc EXCEPT ![c] = "done"]
                 /\ UNCHANGED << reqQ, loadsSent >>
            ELSE /\ Len(reqQ) < ChannelCap
                 /\ reqQ' = Append(reqQ, r)
                 /\ cpc' = [cpc EXCEPT ![c] = "lock"]
                 /\ loadsSent' = IF r.kind = "LoadPlugins"
                                   THEN Append(loadsSent, r.specs) ELSE loadsSent
                 /\ UNCHANGED result
  /\ UNCHANGED << runnerVars, resQ, proxy, handle, lockQ, runnerHist, answer, got >>

\* self.rx.lock(): the caller joins the mutex's FIFO queue
CallerLock(c) ==
  /\ cpc[c] = "lock"
  /\ lockQ' = Append(lockQ, c)
  /\ cpc' = [cpc EXCEPT ![c] = "recv"]
  /\ UNCHANGED << runnerVars, reqQ, resQ, proxy, handle, call, result, ncalls,
                  runnerHist, loadsSent, answer, got, exitedAtStart >>

\* what load_plugins makes of rx.recv()
LoadOutcome(val) ==
  IF val.kind = "none" THEN [ok |-> FALSE, err |-> "AlreadyClosed", diags |-> <<>>]
  ELSE IF val.kind = "LoadPlugin" THEN [ok |-> TRUE, err |-> "", diags |-> <<>>]
  ELSE [ok |-> FALSE, err |-> "Panic", diags |-> <<>>]

\* what run_rules makes of rx.recv()
RunOutcome(val) ==
  IF val.kind = "Run" THEN [ok |-> val.ok, err |-> val.err, diags |-> val.diags]
  ELSE [ok |-> FALSE, err |-> "AlreadyClosed", diags |-> <<>>]

\* holding the lock: rx.recv().await yields the next response, or None once
\* the Runner dropped its sender and the queue is empty; the guard is released
CallerRecv(c) ==
  /\ cpc[c] = "recv"
  /\ lockQ # <<>> /\ Head(lockQ) = c
  /\ resQ # <<>> \/ rpc = "exited"
  /\ LET val == IF resQ # <<>> THEN Head(resQ) ELSE NoResp
         out == IF call[c].kind = "LoadPlugins" THEN LoadOutcome(val) ELSE RunOutcome(val)
     IN /\ result' = [result EXCEPT ![c] = out]
        /\ got' = [got EXCEPT ![c] = val]
        /\ cpc' = [cpc EXCEPT ![c] = IF out.err = "Panic" THEN "dead" ELSE "done"]
  /\ resQ' = IF resQ # <<>> THEN Tail(resQ) ELSE resQ
  /\ lockQ' = Tail(lockQ)
  /\ UNCHANGED << runnerVars, reqQ, proxy, handle, call, ncalls,
                  runnerHist, loadsSent, answer, exitedAtStart >>

\* the call returns to its caller; create_runner_and_load_plugins hands out
\* the Proxy on Ok and drops it on Err
CallerReturn(c) ==
  /\ cpc[c] = "done"
  /\ cpc' = [cpc EXCEPT ![c] = "idle"]
  /\ IF handle = "none"
       THEN /\ handle' = IF result[c].ok THEN "ok" ELSE "err"
            /\ proxy' = IF result[c].ok THEN proxy ELSE "dropped"
       ELSE UNCHANGED << handle, proxy >>
  /\ call' = [call EXCEPT ![c] = NoReq]
  /\ result' = [result EXCEPT ![c] = NoResult]
  /\ answer' = [answer EXCEPT ![c] = NoResp]
  /\ got' = [got EXCEPT ![c] = NoResp]
  /\ exitedAtStart' = [exitedAtStart EXCEPT ![c] = FALSE]
  /\ UNCHANGED << runnerVars, reqQ, resQ, ncalls, lockQ, runnerHist, loadsSent >>

\* the owner drops the PluginRunnerProxy while no call borrows it
DropProxy ==
  /\ handle = "ok"
  /\ proxy = "live"
  /\ \A c \in Callers : cpc[c] \in {"idle", "dead"}
  /\ proxy' = "dropped"
  /\ UNCHANGED << runnerVars, reqQ, resQ, handle, callerVars,
                  runnerHist, loadsSent, answer, got, exitedAtStart >>

Next ==
  \/ RunnerBootstrap
  \/ RunnerRecv
  \/ RunnerClose
  \/ RunnerLoadModules
  \/ RunnerRegister
  \/ RunnerRunRule
  \/ RunnerTake
  \/ RunnerRespond
  \/ \E c \in Callers : CallerSend(c)
  \/ \E c \in Callers : CallerLock(c)
  \/ \E c \in Callers : CallerRecv(c)
  \/ \E c \in Callers : CallerReturn(c)
  \/ DropProxy

Spec == Init /\ [][Next]_vars

\* the steps of the Runner thread
Runner ==
  \/ RunnerBootstrap
  \/ RunnerRecv
  \/ RunnerClose
  \/ RunnerLoadModules
  \/ RunnerRegister
  \/ RunnerRunRule
  \/ RunnerTake
  \/ RunnerRespond

\* the Runner is an operating-system thread of its own (std::thread::spawn)
\* that blocks on its runtime until run_loop's future completes: it takes its
\* next step whenever it has one
FairSpec == Spec /\ WF_vars(Runner)

(* ------------------------------ properties ----------------------------- *)

\* C1: a load_plugins call whose request the Runner answered with
\* LoadPlugin(Err) returns an error, and it returns Ok only when the Runner's
\* answer to its request was LoadPlugin(Ok).
C1_LoadOutcomePropagated ==
  \A c \in Callers :
    (cpc[c] = "done" /\ call[c].kind = "LoadPlugins") =>
       /\ (answer[c].kind = "LoadPlugin" /\ ~answer[c].ok) => ~result[c].ok
       /\ result[c].ok => (answer[c].kind = "LoadPlugin" /\ answer[c].ok)

\* C2: when a register of the load being handled failed on a duplicate name,
\* the LoadPlugin response of that load is an AlreadyExists error.
C2_DuplicateSurfaces ==
  (rpc = "respond" /\ resp.kind = "LoadPlugin" /\ regFailed) =>
     (~resp.ok /\ resp.err = "AlreadyExists")

RECURSIVE FirstRegistrations(_, _)
\* the register calls of a log that name a plugin for the first time
FirstRegistrations(log, seen) ==
  IF log = <<>> THEN <<>>
  ELSE IF Head(log).name \in seen
         THEN FirstRegistrations(Tail(log), seen)
         ELSE << [name |-> Head(log).name, rules |-> Head(log).rules] >>
              \o FirstRegistrations(Tail(log), seen \cup {Head(log).name})

\* C3: no plugin name is registered twice; a register call succeeds exactly
\* when no earlier register call had the same name, otherwise it fails with
\* AlreadyExists; the registry is, in order, the first registration of each
\* name (a failed register changed neither an entry nor the order).
C3_RegistrationUnique ==
  /\ \A i, j \in 1..Len(plugins) : plugins[i].name = plugins[j].name => i = j
  /\ \A i \in 1..Len(regLog) :
       /\ regLog[i].ok <=> (\A j \in 1..(i - 1) : regLog[j].name # regLog[i].name)
       /\ ~regLog[i].ok => regLog[i].err = "AlreadyExists"
  /\ plugins = FirstRegistrations(regLog, {})

\* C3 witness: two register calls with one name and different rule sets, the
\* second of which failed.
C3_Witness ==
  \E i, j \in 1..Len(regLog) :
    /\ i < j
    /\ regLog[i].name = regLog[j].name
    /\ regLog[i].rules # regLog[j].rules
    /\ regLog[i].ok /\ ~regLog[j].ok
    /\ Len(plugins) >= 1

\* the (plugin, rule) pairs of the invocation history
InvokedPairs ==
  [i \in 1..Len(invoked) |-> [plugin |-> invoked[i].plugin, rule |-> invoked[i].rule]]

\* C4: handling a Run request invokes runPluginRule for every registered
\* (plugin, rule) pair exactly once, plugins in registration order and rules
\* in insertion order, whether or not an earlier invocation of the run failed.
C4_RunComplete ==
  /\ rpc = "run" => InvokedPairs = SubSeq(Flatten(plugins), 1, idx - 1)
  /\ (rpc = "respond" /\ resp.kind = "Run") =>
        /\ InvokedPairs = Flatten(plugins)
        /\ \A i, j \in 1..Len(invoked) : InvokedPairs[i] = InvokedPairs[j] => i = j

\* C4 witness: a finished run over two plugins in which an invocation failed
\* and a later one was still made.
C4_Witness ==
  /\ rpc = "respond" /\ resp.kind = "Run"
  /\ Len(plugins) >= 2
  /\ \E i, j \in 1..Len(invoked) : i < j /\ ~invoked[i].ok /\ invoked[j].ok

\* C5: once the Runner has sent a Run response the diagnostic buffer is empty,
\* and a Run request that directly follows one and during which nothing is
\* reported is answered with an empty diagnostic sequence.
C5_DiagnosticDrain ==
  /\ (rpc = "respond" /\ resp.kind = "Run") => diagnostics = <<>>
  /\ (rpc = "waiting" /\ sent.kind = "Run") => diagnostics = <<>>
  /\ (rpc = "respond" /\ resp.kind = "Run" /\ sent.kind = "Run" /\ nrep = 0) =>
        (resp.ok /\ resp.diags = <<>>)

\* C5 witness: a Run that returned diagnostics is followed by a Run over a
\* non-empty plan that reports nothing and is about to answer with none.
C5_Witness ==
  /\ rpc = "respond" /\ resp.kind = "Run"
  /\ sent.kind = "Run" /\ sent.diags # <<>>
  /\ plan # <<>> /\ nrep = 0
  /\ resp.diags = <<>>

\* id and message of each diagnostic of a sequence
DiagIds(ds) == [i \in 1..Len(ds) |-> [id |-> ds[i].code, message |-> ds[i].message]]

\* id and message of each report call of a sequence
ReportIds(rs) == [i \in 1..Len(rs) |-> [id |-> rs[i].id, message |-> rs[i].message]]

RECURSIVE ExpectedReports(_, _, _)
\* what the rules of a plan report for an AST, in plan order
ExpectedReports(ps, pairs, ast) ==
  IF pairs = <<>> THEN <<>>
  ELSE LET rules == ps[PluginIndex(ps, Head(pairs).plugin)].rules
           rule == CHOOSE r \in { rules[i] : i \in 1..Len(rules) } : r.name = Head(pairs).rule
       IN ReportIds(Callable(rule.create, "foo.js", ast).reports)
          \o ExpectedReports(ps, Tail(pairs), ast)

\* C6: a failed rule invocation is not propagated: the Run response is a
\* success and holds, in report order, what the rules before and after the
\* failing one reported (after what the buffer held when the request was
\* received); the failure adds no diagnostic.
C6_Isolation ==
  (rpc = "respond" /\ resp.kind = "Run") =>
     /\ resp.ok
     /\ DiagIds(resp.diags) =
          DiagIds(bufAtRecv) \o ExpectedReports(plugins, Flatten(plugins), cur.ast)

\* C6 witness: a plan of three rules whose second invocation failed, about to
\* be answered with the diagnostics of the first and the third.
C6_Witness ==
  /\ rpc = "respond" /\ resp.kind = "Run" /\ resp.ok
  /\ Len(invoked) = 3
  /\ invoked[1].ok /\ ~invoked[2].ok /\ invoked[3].ok
  /\ Len(resp.diags) = 2
  /\ resp.diags[1].code = "r1" /\ resp.diags[2].code = "cond"

\* C7: every call that received a response received the response to the
\* request it sent itself.
C7_OwnResponse ==
  \A c \in Callers :
    (cpc[c] \in {"done", "dead"} /\ got[c].kind # "none") =>
       /\ got[c].id = call[c].id
       /\ result[c].err # "Panic"

\* C8: at most one request has been sent whose caller has not yet received a
\* response.
C8_OneOutstanding ==
  Cardinality({ c \in Callers : cpc[c] \in {"lock", "recv"} }) <= 1

\* C9: a call made after the Runner thread exited, or left unanswered by a
\* Runner thread that exited, returns an AlreadyClosed error.
C9_ClosedIsAlreadyClosed ==
  \A c \in Callers :
    (cpc[c] = "done" /\ (exitedAtStart[c] \/ (rpc = "exited" /\ answer[c].kind = "none"))) =>
       (~result[c].ok /\ result[c].err = "AlreadyClosed")

\* C10: when the only load ever sent is that of the "no-console" plugin, every
\* run_rules call returns exactly one diagnostic, with id "no-console" and the
\* message "Unexpected console statement".
C10_NoConsole ==
  (loadsSent = << << "nc" >> >>) =>
     \A c \in Callers :
       (cpc[c] = "done" /\ call[c].kind = "Run") =>
          /\ result[c].ok
          /\ Len(result[c].diags) = 1
          /\ result[c].diags[1].code = "no-console"
          /\ result[c].diags[1].message = "Unexpected console statement"

\* C10 witness: the second run_rules call after the load of "no-console"
\* returned its one diagnostic.
C10_Witness ==
  /\ loadsSent = << << "nc" >> >>
  /\ ncalls = 3
  /\ \E c \in Callers :
       /\ cpc[c] = "done" /\ call[c].kind = "Run" /\ call[c].id = 3
       /\ result[c].ok
       /\ Len(result[c].diags) = 1
       /\ result[c].diags[1].code = "no-console"

\* the first position of a specifier list whose module fails to evaluate or
\* to deserialize, 0 when there is none
FailPos(specs) ==
  IF \E i \in 1..Len(specs) : Module(specs[i]).kind \in {"evalErr", "deserErr"}
    THEN CHOOSE i \in 1..Len(specs) :
           /\ Module(specs[i]).kind \in {"evalErr", "deserErr"}
           /\ \A j \in 1..(i - 1) : Module(specs[j]).kind \notin {"evalErr", "deserErr"}
    ELSE 0

\* C11: when evaluating or deserializing the module at position k of a load
\* fails, the Runner's response is that error, the plugins of the positions
\* before k stay registered after the ones registered before the call, and no
\* plugin of position k or later is registered by the call.
C11_NoRollback ==
  LET k == FailPos(cur.specs) IN
  ( /\ rpc = "respond" /\ resp.kind = "LoadPlugin"
    /\ k > 0
    /\ \A i \in 1..Len(cur.specs) : Module(cur.specs[i]).kind \notin {"loadErr", "loopErr"}
    /\ \A i \in 1..(k - 1) : Module(cur.specs[i]).kind = "ok" ) =>
     /\ ~resp.ok
     /\ resp.err = (IF Module(cur.specs[k]).kind = "evalErr"
                      THEN "EvalError" ELSE "Failed to deserialize plugin")
     /\ idx = k
     /\ Len(plugins) >= Len(regAtRecv)
     /\ SubSeq(plugins, 1, Len(regAtRecv)) = regAtRecv
     /\ PluginNames(plugins) =
          PluginNames(regAtRecv) \cup { Module(cur.specs[i]).def.name : i \in 1..(k - 1) }

\* C11 witness: a load whose second module failed to deserialize is about to
\* be answered with the error, its first plugin newly registered.
C11_Witness ==
  /\ rpc = "respond" /\ resp.kind = "LoadPlugin" /\ ~resp.ok
  /\ FailPos(cur.specs) = 2
  /\ resp.err = "Failed to deserialize plugin"
  /\ Len(plugins) = Len(regAtRecv) + 1

\* plugin and rule names script code may ask op_lint_get_rule for
ProbePlugins == {"no-console", "p3", "noisy", "absent"}

ProbeRules == {"no-console", "other", "r1", "r2", "r3", "cond", "nonexistent"}

\* the three outcomes of resolving a (plugin, rule) pair, on every registry:
\* the empty one the thread starts with, each one a registration leaves, and
\* the one a run resolves its rules on
C12_Cases ==
  rpc \in {"starting", "register", "run"} =>
    \A p \in ProbePlugins, r \in ProbeRules :
      LET res == OpLintGetRule(plugins, p, r)
          at == { i \in 1..Len(plugins) : plugins[i].name = p }
      IN IF at = {}
           THEN ~res.ok /\ res.err = "NotFound" /\ res.missing = p
           ELSE \A i \in at :
                  LET rs == plugins[i].rules
                      hit == { j \in 1..Len(rs) : rs[j].name = r }
                  IN IF hit = {}
                       THEN ~res.ok /\ res.err = "NotFound" /\ res.missing = r
                       ELSE res.ok /\ \A j \in hit : res.fn = rs[j].create

\* a rule invocation leaves the registry as it was, and one whose script only
\* resolves rules (it makes no report call) leaves the diagnostic buffer as it was
C12_Frame ==
  (rpc = "run" /\ Len(invoked') = Len(invoked) + 1) =>
     /\ plugins' = plugins
     /\ LET got_rule == OpLintGetRule(plugins, plan[idx].plugin, plan[idx].rule) IN
          (got_rule.ok /\ Callable(got_rule.fn, "foo.js", cur.ast).reports = <<>>) =>
             diagnostics' = diagnostics

\* C12: resolving (plugin, rule) returns the stored callable when both are
\* registered, fails with NotFound naming the plugin when the plugin is not
\* registered, fails with NotFound naming the rule when only the rule is
\* missing, and changes neither the registry nor the diagnostic buffer.
C12_Resolve == [](C12_Cases) /\ [][C12_Frame]_vars

\* C12 witness: a run over a registry without "no-console" in which one
\* invocation resolved and ran its rule and another failed on a missing rule.
C12_Witness ==
  /\ rpc = "run"
  /\ "p3" \in PluginNames(plugins) /\ "no-console" \notin PluginNames(plugins)
  /\ \E i, j \in 1..Len(invoked) : invoked[i].ok /\ ~invoked[j].ok

\* C13: when the bootstrap script fails to evaluate, the Runner thread exits
\* with the error without receiving or answering a request, and
\* create_runner_and_load_plugins returns an error and no Proxy, its call never
\* being blocked, however the thread's startup interleaves with the first send.
C13_ConstructionFailure ==
  exit = "Err" =>
     /\ rpc = "exited"
     /\ recvLog = <<>> /\ sentLog = <<>> /\ resQ = <<>>
     /\ plugins = <<>>
     /\ handle # "ok"
     /\ \A c \in Callers :
          /\ cpc[c] = "done" => (~result[c].ok /\ result[c].err \in {"SendError", "AlreadyClosed"})
          /\ cpc[c] \in {"lock", "recv"} =>
               ENABLED (CallerLock(c) \/ CallerRecv(c))

\* C13 witness: the first request was queued before the thread failed its
\* bootstrap, and create_runner_and_load_plugins has returned the error.
C13_Witness ==
  /\ exit = "Err"
  /\ loadsSent # <<>>
  /\ handle = "err"

\* the response variant that answers a request variant
RespKind(k) == IF k = "LoadPlugins" THEN "LoadPlugin" ELSE "Run"

\* C14: the run loop sends exactly one response, of the matching variant, for
\* a request before it receives the next one: the responses sent are, in
\* order, the answers to the requests received, all of them but the one still
\* being handled (or the one a panic cut short).
C14_Alternation ==
  /\ Len(sentLog) =
       Len(recvLog) - (IF rpc \in {"load", "register", "run", "respond"} \/ exit = "Panic"
                         THEN 1 ELSE 0)
  /\ \A i \in 1..Len(sentLog) :
       /\ sentLog[i].id = recvLog[i].id
       /\ sentLog[i].kind = RespKind(recvLog[i].kind)
  /\ rpc \in {"load", "register", "run", "respond"} =>
       (recvLog # <<>> /\ recvLog[Len(recvLog)].id = cur.id)
  /\ rpc = "respond" => (resp.id = cur.id /\ resp.kind = RespKind(cur.kind))

\* C14 witness: three requests of both variants were received and answered,
\* one of them with an error.
C14_Witness ==
  /\ rpc = "waiting"
  /\ Len(sentLog) = 3
  /\ \E i, j \in 1..3 : sentLog[i].kind = "LoadPlugin" /\ sentLog[j].kind = "Run"
  /\ sent.kind = "LoadPlugin" /\ ~sent.ok

C16_Step ==
  /\ rpc = "run" =>
       /\ plugins' = plugins
       /\ \/ /\ rpc' = "run"
             /\ invoked' = invoked
             /\ diagnostics' = diagnostics
          \/ /\ rpc' = "run"
             /\ Len(invoked') = Len(invoked) + 1
             /\ LET reps == ExpectedReports(plugins, << plan[idx] >>, cur.ast)
                    n == Len(diagnostics)
                IN /\ Len(diagnostics') = n + Len(reps)
                   /\ SubSeq(diagnostics', 1, n) = diagnostics
                   /\ \A i \in 1..Len(reps) :
                        LET d == diagnostics'[n + i] IN
                          /\ d.code = reps[i].id
                          /\ d.message = reps[i].message
                          /\ d.range = "None" /\ d.hint = "None"
                          /\ d.fixes = <<>> /\ d.info = <<>>
          \/ /\ rpc' = "respond"
             /\ resp'.kind = "Run"
             /\ resp'.diags = diagnostics
             /\ diagnostics' = <<>>
  /\ Len(diagnostics') < Len(diagnostics) => (rpc = "run" /\ rpc' = "respond")

\* C16: while a Run request is handled the registered plugins and their rules
\* do not change and the diagnostic buffer is append-only: a rule invocation
\* appends one Diagnostic per report call (the given id and message, range and
\* hint absent, fixes and info empty) behind the entries already there, which
\* stay as they are; the buffer shrinks only in the drain that makes the Run
\* response, which empties it.
C16_AppendOnly == [][C16_Step]_vars

\* C16 witness: during a run a rule reported behind diagnostics that were
\* already in the buffer when the request was received.
C16_Witness ==
  /\ rpc = "run"
  /\ bufAtRecv # <<>>
  /\ nrep >= 1
  /\ Len(diagnostics) = Len(bufAtRecv) + nrep

\* C17: every call on the Proxy returns a result or an error: no call ends
\* any other way, and the Runner is never blocked sending a response while
\* every caller is blocked before its receive.
C17_EveryCallReturns ==
  /\ \A c \in Callers : cpc[c] # "dead"
  /\ ~ (/\ rpc = "respond"
        /\ ~ ENABLED RunnerRespond
        /\ \A c \in Callers :
             cpc[c] \in {"lock", "recv"} /\ ~ ENABLED (CallerLock(c) \/ CallerRecv(c)))

RECURSIVE EvalReports(_)
\* id and message of what the top-level code of the modules of a specifier
\* list reports: the modules up to the first one that fails to load
EvalReports(specs) ==
  IF specs = <<>> \/ Module(Head(specs)).kind = "loadErr" THEN <<>>
  ELSE ReportIds(Module(Head(specs)).evalReports) \o EvalReports(Tail(specs))

\* what a run_rules call returns is the diagnostic sequence of the Run
\* response it received
C18_Returned ==
  \A c \in Callers :
    (cpc[c] = "done" /\ call[c].kind = "Run" /\ result[c].ok) =>
       (got[c].kind = "Run" /\ result[c].diags = got[c].diags)

\* one step, as far as the diagnostic buffer goes
C18_Step ==
  /\ diagnostics' # diagnostics => rpc \in {"load", "run"}
  /\ cur.kind = "LoadPlugins" =>
       /\ Len(diagnostics') >= Len(diagnostics)
       /\ SubSeq(diagnostics', 1, Len(diagnostics)) = diagnostics
       /\ DiagIds(diagnostics') =
            DiagIds(diagnostics) \o (IF rpc = "load" /\ rpc' # "load"
                                       THEN EvalReports(cur.specs) ELSE <<>>)
  /\ (rpc = "run" /\ rpc' = "respond") =>
       /\ resp'.ok
       /\ resp'.diags = diagnostics
       /\ Len(diagnostics) = Len(bufAtRecv) + nrep
       /\ SubSeq(diagnostics, 1, Len(bufAtRecv)) = bufAtRecv

\* C18: a run_rules call returns everything reported since the previous
\* drain, in report order: the buffer changes only while a request is handled,
\* handling a LoadPlugins request only appends to it what the modules report
\* while they are evaluated, and the Run response holds the whole buffer, what
\* it held when the request was received ahead of what the rules of the run
\* reported.
C18_ReportedSinceDrain == [](C18_Returned) /\ [][C18_Step]_vars

\* C18 witness: a Run response that holds a diagnostic reported at load time
\* ahead of one reported by a rule of the run.
C18_Witness ==
  /\ rpc = "respond" /\ resp.kind = "Run"
  /\ Len(resp.diags) >= 2
  /\ resp.diags[1].code = "noisy"
  /\ resp.diags[Len(resp.diags)].code = "cond"
  /\ nrep = 1

\* the specifier list holds a module that fails to load or that makes the
\* event loop fail
LoadFails(specs) ==
  \E i \in 1..Len(specs) : Module(specs[i]).kind \in {"loadErr", "loopErr"}

\* C19: load_plugins works in two phases: nothing is registered while the
\* modules of the call are loaded and their evaluation is started, and the
\* registrations begin only when every specifier loaded and the event loop ran;
\* so a call with a module that fails to load, or whose event loop run fails,
\* answers with that error and the registry as it was when the request was
\* received, whatever was listed before the failing specifier.
C19_TwoPhase ==
  /\ rpc = "load" => plugins = regAtRecv
  /\ rpc = "register" =>
       /\ ~ LoadFails(cur.specs)
       /\ idx = 1 => plugins = regAtRecv
  /\ (rpc = "respond" /\ resp.kind = "LoadPlugin" /\ LoadFails(cur.specs)) =>
       /\ ~ resp.ok
       /\ resp.err \in {"LoadError", "EventLoopError"}
       /\ plugins = regAtRecv
       /\ idx = 1

\* C19 witness: a call listing a well-formed plugin ahead of a module that
\* fails to load is about to be answered with the load error, the plugin not
\* registered.
C19_Witness ==
  /\ rpc = "respond" /\ resp.kind = "LoadPlugin"
  /\ cur.specs = << "noisy", "e_load" >>
  /\ resp.err = "LoadError"
  /\ "noisy" \notin PluginNames(plugins)

====
